---- MODULE Spec2Model ----
(***************************************************************************)
(* Model of build_files/buildbot/codesign/macos_code_signer.py: the file   *)
(* classifier (is_file_from_bundle, get_bundle_from_file,                  *)
(* is_bundle_executable_file, check_file_is_to_be_signed) and the signing  *)
(* orchestration of MacOSCodeSigner (codesign_all_files, codesign_bundles, *)
(* sign_all_files).                                                        *)
(*                                                                         *)
(* A Python str is a sequence of one-character strings, so that            *)
(* str.endswith, str.startswith and Path.suffix are computed character by  *)
(* character.  A pathlib.Path is its `parts` tuple; an absolute path has   *)
(* the root "/" as its first part.                                         *)
(***************************************************************************)
EXTENDS Integers, Sequences, FiniteSets, TLC

(***************************************************************************)
(* Bounds of the model.                                                    *)
(***************************************************************************)
\* Longest list of files handed to sign_all_files.
MaxFiles == 3

(***************************************************************************)
(* String literals of the source.                                          *)
(***************************************************************************)
Root == <<"/">>

BUNDLE_SUFFIX == <<".", "a", "p", "p">>

CONTENTS_MACOS == << <<"C", "o", "n", "t", "e", "n", "t", "s">>,
                     <<"M", "a", "c", "O", "S">> >>

EXTENSIONS_TO_BE_SIGNED ==
    { <<".", "d", "y", "l", "i", "b">>, <<".", "s", "o">>, <<".", "d", "m", "g">> }

NAME_PREFIXES_TO_BE_SIGNED == { <<"p", "y", "t", "h", "o", "n">> }

(***************************************************************************)
(* str and pathlib operations the source calls.                            *)
(***************************************************************************)
\* str.endswith(suffix)
endswith(s, suffix) ==
    /\ Len(s) >= Len(suffix)
    /\ SubSeq(s, Len(s) - Len(suffix) + 1, Len(s)) = suffix

\* str.startswith(prefix)
startswith(s, prefix) ==
    /\ Len(s) >= Len(prefix)
    /\ SubSeq(s, 1, Len(prefix)) = prefix

\* str.rfind(ch): the 0-based index of the last occurrence, -1 when absent.
rfind(s, ch) ==
    LET hits == {i \in 1..Len(s) : s[i] = ch}
    IN  IF hits = {} THEN -1
        ELSE (CHOOSE i \in hits : \A j \in hits : j <= i) - 1

\* PurePath.name: the final component, the empty string for an empty path.
name(path) == IF path = <<>> THEN <<>> ELSE path[Len(path)]

\* PurePath.suffix: the final component's last dot-suffix; a leading dot or a
\* trailing dot gives no suffix.
suffix(path) ==
    LET n == name(path)
        i == rfind(n, ".")
    IN  IF 0 < i /\ i < Len(n) - 1 THEN SubSeq(n, i + 1, Len(n)) ELSE <<>>

\* PurePath.is_absolute
is_absolute(path) == path # <<>> /\ path[1] = Root

\* PurePath.__truediv__ / joinpath: an absolute right operand replaces the left.
joinpath(path, other) == IF is_absolute(other) THEN other ELSE path \o other

\* PurePath.relative_to(base), for a path that lies under base.
relative_to(path, base) == SubSeq(path, Len(base) + 1, Len(path))

\* AbsoluteAndRelativeFileName(base_dir, filepath): the absolute path of the
\* file and its path relative to base_dir.
AbsoluteAndRelativeFileName(base_dir, filepath) ==
    LET absolute_filepath == joinpath(base_dir, filepath)
    IN  [base_dir          |-> base_dir,
         absolute_filepath |-> absolute_filepath,
         relative_filepath |-> relative_to(absolute_filepath, base_dir)]

(***************************************************************************)
(* The classifier.                                                         *)
(***************************************************************************)
is_file_from_bundle(file) ==
    LET parts == file.relative_filepath
    IN  IF parts = <<>> THEN FALSE
        ELSE IF ~endswith(parts[1], BUNDLE_SUFFIX) THEN FALSE
        ELSE TRUE

\* The assertion of get_bundle_from_file failing.
AssertionError == [raised |-> "AssertionError"]

\* Mutant of get_bundle_from_file: the assertion is not checked.
get_bundle_from_file_unchecked(file) ==
    LET parts == file.relative_filepath
    IN  IF parts = <<>> THEN [raised |-> "IndexError"]
        ELSE AbsoluteAndRelativeFileName(
                 file.base_dir, joinpath(file.base_dir, <<parts[1]>>))

get_bundle_from_file(file) ==
    IF ~is_file_from_bundle(file) THEN AssertionError
    ELSE LET parts == file.relative_filepath
             bundle_name == <<parts[1]>>
             base_dir == file.base_dir
             bundle_filepath == joinpath(file.base_dir, bundle_name)
         IN  AbsoluteAndRelativeFileName(base_dir, bundle_filepath)

\* Mutant of is_bundle_executable_file: only a path below Contents/MacOS is
\* an executable.
is_bundle_executable_file_below(file) ==
    IF ~is_file_from_bundle(file) THEN FALSE
    ELSE LET parts == file.relative_filepath
             num_parts == Len(parts)
         IN  IF num_parts <= 3 THEN FALSE
             ELSE IF SubSeq(parts, 2, 3) # CONTENTS_MACOS THEN FALSE
             ELSE TRUE

is_bundle_executable_file(file) ==
    IF ~is_file_from_bundle(file) THEN FALSE
    ELSE LET parts == file.relative_filepath
             num_parts == Len(parts)
         IN  IF num_parts < 3 THEN FALSE
             ELSE IF SubSeq(parts, 2, 3) # CONTENTS_MACOS THEN FALSE
             ELSE TRUE

\* Mutant of check_file_is_to_be_signed: the extension is matched with
\* str.endswith on the file name.
check_file_is_to_be_signed_endswith(file) ==
    IF is_bundle_executable_file(file) THEN TRUE
    ELSE LET base_name == name(file.relative_filepath)
         IN  IF \E prefix \in NAME_PREFIXES_TO_BE_SIGNED :
                    startswith(base_name, prefix)
             THEN TRUE
             ELSE \E extension \in EXTENSIONS_TO_BE_SIGNED :
                      endswith(base_name, extension)

\* Mutant of check_file_is_to_be_signed: the extension rule is applied to
\* files outside bundles only.
check_file_is_to_be_signed_outside(file) ==
    IF is_bundle_executable_file(file) THEN TRUE
    ELSE LET base_name == name(file.relative_filepath)
         IN  IF \E prefix \in NAME_PREFIXES_TO_BE_SIGNED :
                    startswith(base_name, prefix)
             THEN TRUE
             ELSE /\ ~is_file_from_bundle(file)
                  /\ suffix(file.relative_filepath) \in EXTENSIONS_TO_BE_SIGNED

check_file_is_to_be_signed(file) ==
    IF is_bundle_executable_file(file) THEN TRUE
    ELSE LET base_name == name(file.relative_filepath)
         IN  IF \E prefix \in NAME_PREFIXES_TO_BE_SIGNED :
                    startswith(base_name, prefix)
             THEN TRUE
             ELSE suffix(file.relative_filepath) \in EXTENSIONS_TO_BE_SIGNED

(***************************************************************************)
(* The signer: the two external commands.                                  *)
(***************************************************************************)
\* self.config, read-only for the signer.
config ==
    [MACOS_ENTITLEMENTS_FILE |->
         <<"e", "n", "t", "i", "t", "l", "e", "m", "e", "n", "t", "s",
           ".", "p", "l", "i", "s", "t">>,
     MACOS_CODESIGN_IDENTITY |-> <<"D", "e", "v", "e", "l", "o", "p", "e", "r">>]

\* command of codesign_remove_signature
remove_signature_command(file) ==
    <<"codesign", "--remove-signature", file.absolute_filepath>>

\* command of codesign_file; the f-string puts the path between double quotes.
codesign_command(file) ==
    LET entitlements_file == config.MACOS_ENTITLEMENTS_FILE
    IN  <<"codesign",
          "--timestamp",
          "--options", "runtime",
          <<"-", "-", "e", "n", "t", "i", "t", "l", "e", "m", "e", "n", "t", "s", "=">>
              \o <<"\"">> \o entitlements_file \o <<"\"">>,
          "--sign", config.MACOS_CODESIGN_IDENTITY,
          file.absolute_filepath>>

(***************************************************************************)
(* Inputs.                                                                 *)
(***************************************************************************)
OUT == <<Root, <<"o", "u", "t">> >>
ALT == <<Root, <<"a", "l", "t">> >>

APP_APP == <<"A", "p", "p", ".", "a", "p", "p">>
FOO_APP == <<"F", "o", "o", ".", "a", "p", "p">>
CONTENTS == <<"C", "o", "n", "t", "e", "n", "t", "s">>
MACOS == <<"M", "a", "c", "O", "S">>
RESOURCES == <<"R", "e", "s", "o", "u", "r", "c", "e", "s">>

\* A file as the caller builds it: base_dir and the file's path below it.
FileIn(base_dir, relative) ==
    AbsoluteAndRelativeFileName(base_dir, joinpath(base_dir, relative))

\* The files the lists handed to sign_all_files are drawn from.
OrchFiles ==
    { FileIn(OUT, <<APP_APP, CONTENTS, MACOS, <<"A", "p", "p">> >>),
      FileIn(OUT, <<APP_APP, CONTENTS, RESOURCES,
                    <<"l", "i", "b", ".", "d", "y", "l", "i", "b">> >>),
      FileIn(OUT, <<APP_APP, CONTENTS,
                    <<"I", "n", "f", "o", ".", "p", "l", "i", "s", "t">> >>),
      FileIn(ALT, <<APP_APP, CONTENTS, MACOS, <<"A", "p", "p">> >>),
      FileIn(OUT, <<FOO_APP, CONTENTS, MACOS, <<"F", "o", "o">> >>),
      FileIn(OUT, << <<"s", "t", "a", "n", "d", "a", "l", "o", "n", "e",
                       ".", "d", "y", "l", "i", "b">> >>),
      FileIn(OUT, << <<"r", "e", "a", "d", "m", "e", ".", "t", "x", "t">> >>),
      FileIn(OUT, <<APP_APP, CONTENTS, RESOURCES,
                    <<"p", "y", "t", "h", "o", "n", "X">> >>),
      FileIn(OUT, <<>>) }

\* Directories and file names the classifier is called on.
FnDirs ==
    { <<>>,
      <<APP_APP>>,
      <<APP_APP, CONTENTS>>,
      <<APP_APP, CONTENTS, MACOS>>,
      <<APP_APP, CONTENTS, RESOURCES>>,
      <<APP_APP, MACOS, CONTENTS>>,
      <<APP_APP, RESOURCES, CONTENTS, MACOS>>,
      << <<"D", "a", "t", "a">>, APP_APP, CONTENTS, MACOS>>,
      << <<"A", "p", "p", "a", "p", "p">>, CONTENTS, MACOS>>,
      << BUNDLE_SUFFIX, CONTENTS, MACOS>> }

FnStems ==
    { <<>>, <<"A", "p", "p">>, <<"l", "i", "b">>, <<"r", "e", "a", "d", "m", "e">>,
      <<"p", "y", "t", "h", "o", "n">>, <<"p", "y", "t", "h", "o", "n", "X">>,
      <<"P", "y", "t", "h", "o", "n">> }

FnExts ==
    { <<>>, <<".">>, <<".", "d", "y", "l", "i", "b">>, <<".", "s", "o">>,
      <<".", "d", "m", "g">>, <<".", "t", "x", "t">>, <<".", "S", "O">>,
      <<".", "a", "p", "p">>, <<".", "s", "o", ".", "t", "x", "t">>,
      <<".", "t", "x", "t", ".", "s", "o">> }

\* The relative path dir/stem+ext; an empty name adds no component.
FnRelative(dir, stem, ext) ==
    IF stem \o ext = <<>> THEN dir ELSE Append(dir, stem \o ext)

FnFiles ==
    { FileIn(base_dir, FnRelative(dir, stem, ext)) :
        base_dir \in {OUT, ALT}, dir \in FnDirs, stem \in FnStems, ext \in FnExts }

(***************************************************************************)
(* State.                                                                  *)
(***************************************************************************)
VARIABLES
    files,              \* the list handed to sign_all_files
    pc,                 \* position of the running call
    file_index,         \* 1-based position of the loop that runs
    have_ignored_files, \* codesign_all_files: local
    signed_files,       \* codesign_all_files: local
    signed_bundles,     \* codesign_bundles: local
    bundle,             \* codesign_bundles: local, <<>> while unset
    returned,           \* return values so far, <<>> while a call has not returned
    log,                \* commands handed to run_command_or_mock, in order
    failure,            \* "none": every command so far succeeded; "last": the
                        \* latest command is the first to fail; "earlier": a
                        \* command failed and others were issued after it
    signatures,         \* absolute paths that carry a signature on disk
    artifacts,          \* absolute paths whose signature the model follows
    mock,               \* run_command_or_mock records commands without running them
    summary,            \* <<summary>> logged by codesign_all_files, <<>> if none
    runs,               \* one record per finished run that a further call followed
    fn_file,            \* classifier call: the argument
    fn_call,            \* classifier call: the function called, "none" before
    fn_result           \* classifier call: <<result>>, <<>> before

vars == <<files, pc, file_index, have_ignored_files, signed_files,
          signed_bundles, bundle, returned, log, failure,
          signatures, artifacts, mock, summary, runs,
          fn_file, fn_call, fn_result>>

orch_vars == <<files, pc, file_index, have_ignored_files, signed_files,
               signed_bundles, bundle, returned, log, failure,
               signatures, artifacts, mock, summary, runs>>

\* What no step of a run changes.
env_vars == <<artifacts, mock, runs>>

fn_vars == <<fn_file, fn_call, fn_result>>

\* Lists of at most n files drawn from S.
ListsUpTo(S, n) == UNION { [1..k -> S] : k \in 0..n }

\* The state before any call.
Idle ==
    /\ pc = "idle"
    /\ file_index = 0
    /\ have_ignored_files = FALSE
    /\ signed_files = <<>>
    /\ signed_bundles = {}
    /\ bundle = <<>>
    /\ returned = [codesign_all_files |-> <<>>, codesign_bundles |-> <<>>]
    /\ log = <<>>
    /\ failure = "none"
    /\ summary = <<>>
    /\ runs = <<>>

\* The commands run for real, on artifacts whose signatures are not followed.
Opaque ==
    /\ mock = FALSE
    /\ artifacts = {}
    /\ signatures = {}

Init ==
    /\ files \in ListsUpTo(OrchFiles, MaxFiles)
    /\ Idle
    /\ Opaque
    /\ fn_file = FileIn(OUT, <<>>)
    /\ fn_call = "none"
    /\ fn_result = <<>>

(***************************************************************************)
(* run_command_or_mock: the command is handed to the runner, which         *)
(* returns whether the external tool succeeds or fails.                    *)
(***************************************************************************)
\* The external tool: whether the command succeeds, ok being what the
\* environment allows.  Signing an artifact that carries a signature fails.
codesign_succeeds(command, ok) ==
    LET target == command[Len(command)]
    IN  IF command[2] = "--remove-signature" THEN ok
        ELSE ok /\ ~(target \in artifacts /\ target \in signatures)

\* The external tool: the signatures on disk after the command.
codesign_effect(command, ok) ==
    LET target == command[Len(command)]
    IN  IF target \notin artifacts \/ ~codesign_succeeds(command, ok)
        THEN signatures
        ELSE IF command[2] = "--remove-signature"
             THEN signatures \ {target}
             ELSE signatures \cup {target}

run_command_or_mock(command, caller, ok) ==
    /\ log' = Append(log, [command |-> command, caller |-> caller])
    /\ IF mock
       THEN UNCHANGED <<signatures, failure>>
       ELSE /\ signatures' = codesign_effect(command, ok)
            /\ failure' = IF failure = "none"
                          THEN (IF codesign_succeeds(command, ok)
                                THEN "none" ELSE "last")
                          ELSE "earlier"

(***************************************************************************)
(* sign_all_files and codesign_all_files.                                  *)
(***************************************************************************)
\* Mutant of sign_all_files_call: the bundle pass is run first.
sign_all_files_call_bundles_first ==
    /\ pc = "idle"
    /\ pc' = "bundles_loop"
    /\ file_index' = 1
    /\ signed_bundles' = {}
    /\ UNCHANGED <<files, have_ignored_files, signed_files, bundle, returned,
                   log, failure, signatures, fn_vars, env_vars, summary>>

\* sign_all_files is called and enters codesign_all_files.
sign_all_files_call ==
    /\ pc = "idle"
    /\ pc' = "all_files_loop"
    /\ file_index' = 1
    /\ have_ignored_files' = FALSE
    /\ signed_files' = <<>>
    /\ UNCHANGED <<files, signed_bundles, bundle, returned, log, failure, signatures, fn_vars, env_vars, summary>>

\* Mutant of all_files_ignore: an ignored file ends the loop (break for
\* continue).
all_files_ignore_break ==
    /\ pc = "all_files_loop"
    /\ file_index <= Len(files)
    /\ ~check_file_is_to_be_signed(files[file_index])
    /\ have_ignored_files' = TRUE
    /\ file_index' = Len(files) + 1
    /\ UNCHANGED <<files, pc, signed_files, signed_bundles, bundle, returned,
                   log, failure, signatures, fn_vars, env_vars, summary>>

\* The file is not to be signed.
all_files_ignore ==
    /\ pc = "all_files_loop"
    /\ file_index <= Len(files)
    /\ ~check_file_is_to_be_signed(files[file_index])
    /\ have_ignored_files' = TRUE
    /\ file_index' = file_index + 1
    /\ UNCHANGED <<files, pc, signed_files, signed_bundles, bundle, returned,
                   log, failure, signatures, fn_vars, env_vars, summary>>

\* Mutant of all_files_remove_signature: a failed removal skips the file.
all_files_remove_signature_checked ==
    /\ pc = "all_files_loop"
    /\ file_index <= Len(files)
    /\ check_file_is_to_be_signed(files[file_index])
    /\ \E ok \in BOOLEAN :
           /\ run_command_or_mock(remove_signature_command(files[file_index]),
                                  "codesign_all_files", ok)
           /\ IF ok
              THEN pc' = "all_files_sign" /\ UNCHANGED file_index
              ELSE pc' = "all_files_loop" /\ file_index' = file_index + 1
    /\ UNCHANGED <<files, have_ignored_files, signed_files, signed_bundles,
                   bundle, returned, fn_vars, env_vars, summary>>

\* self.codesign_remove_signature(file)
all_files_remove_signature ==
    /\ pc = "all_files_loop"
    /\ file_index <= Len(files)
    /\ check_file_is_to_be_signed(files[file_index])
    /\ \E ok \in BOOLEAN :
           run_command_or_mock(remove_signature_command(files[file_index]),
                               "codesign_all_files", ok)
    /\ pc' = "all_files_sign"
    /\ UNCHANGED <<files, file_index, have_ignored_files, signed_files,
                   signed_bundles, bundle, returned, fn_vars, env_vars, summary>>

\* Mutant of all_files_codesign_file: the sign command is run directly,
\* whatever the execution mode.
all_files_codesign_file_direct ==
    /\ pc = "all_files_sign"
    /\ \E ok \in BOOLEAN :
           LET command == codesign_command(files[file_index])
           IN  /\ log' = Append(log, [command |-> command,
                                      caller |-> "codesign_all_files"])
               /\ signatures' = codesign_effect(command, ok)
               /\ failure' = IF failure = "none"
                             THEN (IF codesign_succeeds(command, ok)
                                   THEN "none" ELSE "last")
                             ELSE "earlier"
    /\ signed_files' = Append(signed_files, files[file_index])
    /\ file_index' = file_index + 1
    /\ pc' = "all_files_loop"
    /\ UNCHANGED <<files, have_ignored_files, signed_bundles, bundle, returned,
                   fn_vars, env_vars, summary>>

\* self.codesign_file(file); signed_files.append(file)
all_files_codesign_file ==
    /\ pc = "all_files_sign"
    /\ \E ok \in BOOLEAN :
           run_command_or_mock(codesign_command(files[file_index]),
                               "codesign_all_files", ok)
    /\ signed_files' = Append(signed_files, files[file_index])
    /\ file_index' = file_index + 1
    /\ pc' = "all_files_loop"
    /\ UNCHANGED <<files, have_ignored_files, signed_bundles, bundle, returned,
                   fn_vars, env_vars, summary>>

\* The relative paths of the files of a list, in its order.
relative_filepaths(list) ==
    [i \in DOMAIN list |-> list[i].relative_filepath]

\* Mutant of all_files_return: the summary reports the number of input files.
all_files_return_total ==
    /\ pc = "all_files_loop"
    /\ file_index > Len(files)
    /\ summary' = IF have_ignored_files
                  THEN <<[count |-> Len(files),
                          files |-> relative_filepaths(signed_files)]>>
                  ELSE <<>>
    /\ returned' = [returned EXCEPT !.codesign_all_files = <<TRUE>>]
    /\ pc' = "all_files_returned"
    /\ UNCHANGED <<files, file_index, have_ignored_files, signed_files,
                   signed_bundles, bundle, log, failure, signatures,
                   fn_vars, env_vars>>

\* The loop is over: codesign_all_files returns True.
all_files_return ==
    /\ pc = "all_files_loop"
    /\ file_index > Len(files)
    /\ summary' = IF have_ignored_files
                  THEN <<[count |-> Len(signed_files),
                          files |-> relative_filepaths(signed_files)]>>
                  ELSE <<>>
    /\ returned' = [returned EXCEPT !.codesign_all_files = <<TRUE>>]
    /\ pc' = "all_files_returned"
    /\ UNCHANGED <<files, file_index, have_ignored_files, signed_files,
                   signed_bundles, bundle, log, failure, signatures,
                   fn_vars, env_vars>>

\* Mutant of sign_all_files_bundles: the test of the result is inverted.
sign_all_files_bundles_inverted ==
    /\ pc = "all_files_returned"
    /\ IF returned.codesign_all_files[1]
       THEN /\ pc' = "done"
            /\ UNCHANGED <<file_index, signed_bundles>>
       ELSE /\ pc' = "bundles_loop"
            /\ file_index' = 1
            /\ signed_bundles' = {}
    /\ UNCHANGED <<files, have_ignored_files, signed_files, bundle, returned,
                   log, failure, signatures, fn_vars, env_vars, summary>>

\* Mutant of sign_all_files_bundles: signed_bundles outlives the call of
\* codesign_bundles.
sign_all_files_bundles_keep ==
    /\ pc = "all_files_returned"
    /\ IF ~returned.codesign_all_files[1]
       THEN /\ pc' = "done"
            /\ UNCHANGED file_index
       ELSE /\ pc' = "bundles_loop"
            /\ file_index' = 1
    /\ UNCHANGED <<files, have_ignored_files, signed_files, signed_bundles,
                   bundle, returned, log, failure, signatures, fn_vars,
                   env_vars, summary>>

\* sign_all_files: return if codesign_all_files failed, else enter
\* codesign_bundles.
sign_all_files_bundles ==
    /\ pc = "all_files_returned"
    /\ IF ~returned.codesign_all_files[1]
       THEN /\ pc' = "done"
            /\ UNCHANGED <<file_index, signed_bundles>>
       ELSE /\ pc' = "bundles_loop"
            /\ file_index' = 1
            /\ signed_bundles' = {}
    /\ UNCHANGED <<files, have_ignored_files, signed_files, bundle, returned,
                   log, failure, signatures, fn_vars, env_vars, summary>>

(***************************************************************************)
(* codesign_bundles.                                                       *)
(***************************************************************************)
\* The file is not from a bundle.
bundles_skip_file ==
    /\ pc = "bundles_loop"
    /\ file_index <= Len(files)
    /\ ~is_file_from_bundle(files[file_index])
    /\ file_index' = file_index + 1
    /\ UNCHANGED <<files, pc, have_ignored_files, signed_files, signed_bundles,
                   bundle, returned, log, failure, signatures, fn_vars, env_vars, summary>>

\* Mutant of bundles_get_bundle: the bundle is asked for without the test
\* of is_file_from_bundle.
bundles_get_bundle_untested ==
    /\ pc = "bundles_loop"
    /\ file_index <= Len(files)
    /\ LET b == get_bundle_from_file(files[file_index])
       IN  IF b = AssertionError
           THEN pc' = "raised" /\ UNCHANGED bundle
           ELSE pc' = "bundles_found" /\ bundle' = b
    /\ UNCHANGED <<files, file_index, have_ignored_files, signed_files,
                   signed_bundles, returned, log, failure, signatures, fn_vars, env_vars, summary>>

\* bundle = get_bundle_from_file(file); a failed assertion ends the call.
bundles_get_bundle ==
    /\ pc = "bundles_loop"
    /\ file_index <= Len(files)
    /\ is_file_from_bundle(files[file_index])
    /\ LET b == get_bundle_from_file(files[file_index])
       IN  IF b = AssertionError
           THEN pc' = "raised" /\ UNCHANGED bundle
           ELSE pc' = "bundles_found" /\ bundle' = b
    /\ UNCHANGED <<files, file_index, have_ignored_files, signed_files,
                   signed_bundles, returned, log, failure, signatures, fn_vars, env_vars, summary>>

\* bundle_name is in signed_bundles already.
bundles_skip_signed ==
    /\ pc = "bundles_found"
    /\ bundle.relative_filepath \in signed_bundles
    /\ pc' = "bundles_loop"
    /\ file_index' = file_index + 1
    /\ bundle' = <<>>
    /\ UNCHANGED <<files, have_ignored_files, signed_files, signed_bundles,
                   returned, log, failure, signatures, fn_vars, env_vars, summary>>

\* Mutant of bundles_remove_signature: the signature is removed from the
\* file, not from its bundle.
bundles_remove_signature_of_file ==
    /\ pc = "bundles_found"
    /\ bundle.relative_filepath \notin signed_bundles
    /\ \E ok \in BOOLEAN :
           run_command_or_mock(remove_signature_command(files[file_index]),
                               "codesign_bundles", ok)
    /\ pc' = "bundles_sign"
    /\ UNCHANGED <<files, file_index, have_ignored_files, signed_files,
                   signed_bundles, bundle, returned, fn_vars, env_vars, summary>>

\* self.codesign_remove_signature(bundle)
bundles_remove_signature ==
    /\ pc = "bundles_found"
    /\ bundle.relative_filepath \notin signed_bundles
    /\ \E ok \in BOOLEAN :
           run_command_or_mock(remove_signature_command(bundle),
                               "codesign_bundles", ok)
    /\ pc' = "bundles_sign"
    /\ UNCHANGED <<files, file_index, have_ignored_files, signed_files,
                   signed_bundles, bundle, returned, fn_vars, env_vars, summary>>

\* self.codesign_file(bundle); signed_bundles.add(bundle_name)
bundles_codesign_file ==
    /\ pc = "bundles_sign"
    /\ \E ok \in BOOLEAN :
           run_command_or_mock(codesign_command(bundle), "codesign_bundles", ok)
    /\ signed_bundles' = signed_bundles \cup {bundle.relative_filepath}
    /\ pc' = "bundles_loop"
    /\ file_index' = file_index + 1
    /\ bundle' = <<>>
    /\ UNCHANGED <<files, have_ignored_files, signed_files, returned, fn_vars, env_vars, summary>>

\* The loop is over: codesign_bundles returns True and sign_all_files ends.
bundles_return ==
    /\ pc = "bundles_loop"
    /\ file_index > Len(files)
    /\ returned' = [returned EXCEPT !.codesign_bundles = <<TRUE>>]
    /\ pc' = "done"
    /\ UNCHANGED <<files, file_index, have_ignored_files, signed_files,
                   signed_bundles, bundle, log, failure, signatures, fn_vars, env_vars, summary>>

Next ==
    \/ sign_all_files_call
    \/ all_files_ignore
    \/ all_files_remove_signature
    \/ all_files_codesign_file
    \/ all_files_return
    \/ sign_all_files_bundles
    \/ bundles_skip_file
    \/ bundles_get_bundle
    \/ bundles_skip_signed
    \/ bundles_remove_signature
    \/ bundles_codesign_file
    \/ bundles_return

Spec == Init /\ [][Next]_vars

(***************************************************************************)
(* Runs whose effect on disk is followed: every path a command of the run  *)
(* can name is an artifact, some of them signed beforehand, and            *)
(* sign_all_files may be called again on the same list.                    *)
(***************************************************************************)
MaxDiskFiles == 2

MaxRuns == 2

DiskFiles ==
    { FileIn(OUT, <<APP_APP, CONTENTS, MACOS, <<"A", "p", "p">> >>),
      FileIn(OUT, <<APP_APP, CONTENTS,
                    <<"I", "n", "f", "o", ".", "p", "l", "i", "s", "t">> >>),
      FileIn(OUT, << <<"s", "t", "a", "n", "d", "a", "l", "o", "n", "e",
                       ".", "d", "y", "l", "i", "b">> >>),
      FileIn(OUT, << <<"r", "e", "a", "d", "m", "e", ".", "t", "x", "t">> >>) }

\* The paths the commands of a run on the list can name.
Targets(list) ==
    { list[i].absolute_filepath :
        i \in { j \in DOMAIN list : check_file_is_to_be_signed(list[j]) } }
    \cup
    { get_bundle_from_file(list[i]).absolute_filepath :
        i \in { j \in DOMAIN list : is_file_from_bundle(list[j]) } }

DiskInit ==
    /\ files \in ListsUpTo(DiskFiles, MaxDiskFiles)
    /\ Idle
    /\ mock \in BOOLEAN
    /\ artifacts = Targets(files)
    /\ signatures \in SUBSET artifacts
    /\ fn_file = FileIn(OUT, <<>>)
    /\ fn_call = "none"
    /\ fn_result = <<>>

\* sign_all_files has returned and is called again on the same list.
sign_all_files_again ==
    /\ pc = "done"
    /\ Len(runs) + 1 < MaxRuns
    /\ runs' = Append(runs, [commands |-> Len(log), signatures |-> signatures])
    /\ pc' = "all_files_loop"
    /\ file_index' = 1
    /\ have_ignored_files' = FALSE
    /\ signed_files' = <<>>
    /\ bundle' = <<>>
    /\ returned' = [codesign_all_files |-> <<>>, codesign_bundles |-> <<>>]
    /\ summary' = <<>>
    /\ UNCHANGED <<files, signed_bundles, log, failure, signatures, artifacts,
                   mock, fn_vars>>

DiskNext ==
    \/ Next
    \/ sign_all_files_again

SpecDisk == DiskInit /\ [][DiskNext]_vars

(***************************************************************************)
(* Runs on the lists made of the four files of the worked scenario.        *)
(***************************************************************************)
Scenario ==
    << FileIn(OUT, <<FOO_APP, CONTENTS, MACOS, <<"F", "o", "o">> >>),
       FileIn(OUT, <<FOO_APP, CONTENTS, RESOURCES,
                     <<"l", "i", "b", ".", "d", "y", "l", "i", "b">> >>),
       FileIn(OUT, << <<"s", "t", "a", "n", "d", "a", "l", "o", "n", "e",
                        ".", "d", "y", "l", "i", "b">> >>),
       FileIn(OUT, << <<"r", "e", "a", "d", "m", "e", ".", "t", "x", "t">> >>) >>

ScenarioInit ==
    /\ files \in [DOMAIN Scenario -> { Scenario[i] : i \in DOMAIN Scenario }]
    /\ Idle
    /\ Opaque
    /\ fn_file = FileIn(OUT, <<>>)
    /\ fn_call = "none"
    /\ fn_result = <<>>

SpecScenario == ScenarioInit /\ [][Next]_vars

(***************************************************************************)
(* The classifier called on its own, once on each file of FnFiles.         *)
(***************************************************************************)
FnInit ==
    /\ files = <<>>
    /\ Idle
    /\ Opaque
    /\ fn_file \in FnFiles
    /\ fn_call = "none"
    /\ fn_result = <<>>

call_is_file_from_bundle ==
    /\ fn_call = "none"
    /\ fn_call' = "is_file_from_bundle"
    /\ fn_result' = <<is_file_from_bundle(fn_file)>>
    /\ UNCHANGED <<fn_file, orch_vars>>

call_get_bundle_from_file ==
    /\ fn_call = "none"
    /\ fn_call' = "get_bundle_from_file"
    /\ fn_result' = <<get_bundle_from_file(fn_file)>>
    /\ UNCHANGED <<fn_file, orch_vars>>

call_is_bundle_executable_file ==
    /\ fn_call = "none"
    /\ fn_call' = "is_bundle_executable_file"
    /\ fn_result' = <<is_bundle_executable_file(fn_file)>>
    /\ UNCHANGED <<fn_file, orch_vars>>

call_check_file_is_to_be_signed ==
    /\ fn_call = "none"
    /\ fn_call' = "check_file_is_to_be_signed"
    /\ fn_result' = <<check_file_is_to_be_signed(fn_file)>>
    /\ UNCHANGED <<fn_file, orch_vars>>

FnNext ==
    \/ call_is_file_from_bundle
    \/ call_get_bundle_from_file
    \/ call_is_bundle_executable_file
    \/ call_check_file_is_to_be_signed

SpecFn == FnInit /\ [][FnNext]_vars

(***************************************************************************)
(* Vocabulary of the properties.                                           *)
(***************************************************************************)
IsRemove(c) == c.command[2] = "--remove-signature"
IsSign(c) == c.command[2] = "--timestamp"
Target(c) == c.command[Len(c.command)]
Kind(c) == IF IsSign(c) THEN "sign" ELSE "remove"

\* The commands issued so far, each as <<kind, target>>.
Issued == [k \in DOMAIN log |-> <<Kind(log[k]), Target(log[k])>>]

\* The commands issued so far by one of the two passes.
IssuedBy(caller) ==
    LET FromCaller(c) == c.caller = caller
        part == SelectSeq(log, FromCaller)
    IN  [k \in DOMAIN part |-> <<Kind(part[k]), Target(part[k])>>]

\* The directory of the bundle that owns a file from a bundle: the base
\* directory joined with the first segment of the relative path.
BundleDir(file) == file.base_dir \o <<file.relative_filepath[1]>>

\* Positions of the list whose file is from the bundle directory dir.
MembersOf(dir) ==
    { i \in DOMAIN files :
        is_file_from_bundle(files[i]) /\ BundleDir(files[i]) = dir }

\* Bundle directories that own at least one file of the list.
BundleDirs ==
    { BundleDir(files[i]) :
        i \in {j \in DOMAIN files : is_file_from_bundle(files[j])} }

\* Number of sign commands issued so far on path.
SignCount(path) ==
    Cardinality({ k \in DOMAIN log : IsSign(log[k]) /\ Target(log[k]) = path })

\* Number of sign commands issued so far on path by codesign_bundles.
BundlePassSignCount(path) ==
    Cardinality({ k \in DOMAIN log :
                    /\ log[k].caller = "codesign_bundles"
                    /\ IsSign(log[k])
                    /\ Target(log[k]) = path })

(***************************************************************************)
(* C1.  In a run of sign_all_files the files are signed first and the      *)
(* bundles last: every command of the bundle pass is issued after every    *)
(* command of the per-file pass, and when a bundle is signed every         *)
(* eligible file of the list that the bundle owns has been signed.         *)
(***************************************************************************)
C1_FilesBeforeBundles ==
    /\ \A j, k \in DOMAIN log :
           (log[j].caller = "codesign_all_files"
              /\ log[k].caller = "codesign_bundles") => j < k
    /\ \A k \in DOMAIN log :
           (log[k].caller = "codesign_bundles" /\ IsSign(log[k])) =>
               \A i \in MembersOf(Target(log[k])) :
                   check_file_is_to_be_signed(files[i]) =>
                       \E j \in 1..(k - 1) :
                           /\ log[j].caller = "codesign_all_files"
                           /\ IsSign(log[j])
                           /\ Target(log[j]) = files[i].absolute_filepath

\* A finished run that signed two eligible files of a bundle and then the
\* bundle.
C1_Witness ==
    /\ pc = "done"
    /\ \E dir \in BundleDirs :
           /\ Cardinality({ i \in MembersOf(dir) :
                              check_file_is_to_be_signed(files[i]) }) >= 2
           /\ BundlePassSignCount(dir) = 1

(***************************************************************************)
(* C2.  Over a complete run of sign_all_files every bundle that owns a     *)
(* file of the list is the target of the sign command exactly once, and    *)
(* no bundle directory is the target of more than one sign command.        *)
(***************************************************************************)
C2_EachBundleSignedOnce ==
    pc = "done" => \A dir \in BundleDirs : SignCount(dir) = 1

(***************************************************************************)
(* C3.  After codesign_bundles has run, a bundle with several files in     *)
(* the list has been signed by it exactly once, whatever the order of the  *)
(* list, and every command it issued targets the bundle of a file of the   *)
(* list.                                                                   *)
(***************************************************************************)
C3_SeveralFilesOneSign ==
    returned.codesign_bundles = <<TRUE>> =>
        /\ \A dir \in BundleDirs :
               Cardinality(MembersOf(dir)) >= 2 => BundlePassSignCount(dir) = 1
        /\ \A k \in DOMAIN log :
               log[k].caller = "codesign_bundles" => Target(log[k]) \in BundleDirs

(***************************************************************************)
(* C4.  Every sign command is immediately preceded by a remove-signature   *)
(* command on the same absolute path.                                      *)
(***************************************************************************)
C4_RemoveBeforeSign ==
    \A k \in DOMAIN log :
        IsSign(log[k]) =>
            /\ k > 1
            /\ IsRemove(log[k - 1])
            /\ Target(log[k - 1]) = Target(log[k])
            /\ log[k - 1].caller = log[k].caller

\* A finished run that signed a file and a bundle.
C4_Witness ==
    /\ pc = "done"
    /\ \E j, k \in DOMAIN log :
           /\ IsSign(log[j]) /\ log[j].caller = "codesign_all_files"
           /\ IsSign(log[k]) /\ log[k].caller = "codesign_bundles"

RECURSIVE SignOneEach(_)
SignOneEach(fs) ==
    IF fs = <<>> THEN <<>>
    ELSE << <<"remove", Head(fs).absolute_filepath>>,
            <<"sign", Head(fs).absolute_filepath>> >> \o SignOneEach(Tail(fs))

(***************************************************************************)
(* C5.  When codesign_all_files has returned, the files it signed are the  *)
(* input list filtered by check_file_is_to_be_signed, in order and with    *)
(* repetitions; it issued remove-signature and sign on each of them in     *)
(* that order and no other command, so a file that is not eligible is      *)
(* the target of none.                                                     *)
(***************************************************************************)
C5_SignedAreEligibleInOrder ==
    returned.codesign_all_files = <<TRUE>> =>
        /\ signed_files = SelectSeq(files, check_file_is_to_be_signed)
        /\ IssuedBy("codesign_all_files") = SignOneEach(signed_files)
        /\ \A i \in DOMAIN files :
               ~check_file_is_to_be_signed(files[i]) =>
                   \A k \in DOMAIN log :
                       log[k].caller = "codesign_all_files" =>
                           Target(log[k]) # files[i].absolute_filepath

\* The pass has returned over a list with an ignored file between two
\* copies of one eligible file.
C5_Witness ==
    /\ returned.codesign_all_files = <<TRUE>>
    /\ Len(files) = 3
    /\ check_file_is_to_be_signed(files[1])
    /\ ~check_file_is_to_be_signed(files[2])
    /\ files[3] = files[1]
    /\ Len(signed_files) = 2

\* n is p followed by anything.
HasPrefix(n, p) == Len(n) >= Len(p) /\ \A i \in 1..Len(p) : n[i] = p[i]

\* n is a non-empty stem followed by the extension e (a dot and letters).
HasExtension(n, e) ==
    Len(n) > Len(e) /\ \A i \in 1..Len(e) : n[Len(n) - Len(e) + i] = e[i]

BaseName(file) ==
    LET parts == file.relative_filepath
    IN  IF Len(parts) = 0 THEN <<>> ELSE parts[Len(parts)]

PythonPrefix == <<"p", "y", "t", "h", "o", "n">>

SignedExtensions ==
    { <<".", "d", "y", "l", "i", "b">>, <<".", "s", "o">>, <<".", "d", "m", "g">> }

TxtExtension == <<".", "t", "x", "t">>

PythonInResources ==
    <<APP_APP, CONTENTS, RESOURCES, <<"p", "y", "t", "h", "o", "n", "X">> >>

C7_TxtNeverEligible ==
    fn_call = "check_file_is_to_be_signed" =>
        /\ ((\E e \in SignedExtensions : HasExtension(BaseName(fn_file), e))
              /\ ~is_bundle_executable_file(fn_file)) => fn_result[1] = TRUE
        /\ HasExtension(BaseName(fn_file), TxtExtension) => fn_result[1] = FALSE

\* C7 as amended: a file with extension .dylib, .so or .dmg outside the
\* bundle executable slot is eligible; a file with extension .txt is not
\* eligible unless it is a bundle executable or its base name starts with
\* python.
C7_TxtEligibleOnlyByOtherRule ==
    fn_call = "check_file_is_to_be_signed" =>
        /\ ((\E e \in SignedExtensions : HasExtension(BaseName(fn_file), e))
              /\ ~is_bundle_executable_file(fn_file)) => fn_result[1] = TRUE
        /\ (HasExtension(BaseName(fn_file), TxtExtension)
              /\ ~is_bundle_executable_file(fn_file)
              /\ ~HasPrefix(BaseName(fn_file), PythonPrefix))
           => fn_result[1] = FALSE

\* check_file_is_to_be_signed has rejected a .txt file that lies in a bundle.
C7_Witness ==
    /\ fn_call = "check_file_is_to_be_signed"
    /\ HasExtension(BaseName(fn_file), TxtExtension)
    /\ is_file_from_bundle(fn_file)
    /\ fn_result = <<FALSE>>

DotApp == <<".", "a", "p", "p">>

\* n ends with e.
HasEnding(n, e) ==
    Len(n) >= Len(e) /\ \A i \in 1..Len(e) : n[Len(n) - Len(e) + i] = e[i]

FirstSegmentIsApp(file) ==
    /\ Len(file.relative_filepath) >= 1
    /\ HasEnding(file.relative_filepath[1], DotApp)

AppExecutable == <<APP_APP, CONTENTS, MACOS, <<"A", "p", "p">> >>

(***************************************************************************)
(* C8.  is_file_from_bundle is true iff the relative path has a first      *)
(* segment and it ends with .app; is_bundle_executable_file is true iff    *)
(* moreover the path has at least 3 segments and the second and third are  *)
(* Contents and MacOS.  Both are true of App.app/Contents/MacOS/App.       *)
(***************************************************************************)
C8_BundlePredicates ==
    /\ fn_call = "is_file_from_bundle" =>
           /\ fn_result[1] = FirstSegmentIsApp(fn_file)
           /\ fn_file.relative_filepath = AppExecutable => fn_result[1] = TRUE
    /\ fn_call = "is_bundle_executable_file" =>
           /\ fn_result[1] =
                  (/\ FirstSegmentIsApp(fn_file)
                   /\ Len(fn_file.relative_filepath) >= 3
                   /\ fn_file.relative_filepath[2] = CONTENTS
                   /\ fn_file.relative_filepath[3] = MACOS)
           /\ ~FirstSegmentIsApp(fn_file) => fn_result[1] = FALSE
           /\ fn_file.relative_filepath = AppExecutable => fn_result[1] = TRUE

\* is_bundle_executable_file has accepted App.app/Contents/MacOS/App.
C8_Witness ==
    /\ fn_call = "is_bundle_executable_file"
    /\ fn_file.relative_filepath = AppExecutable
    /\ fn_result = <<TRUE>>

(***************************************************************************)
(* C9.  get_bundle_from_file fails its assertion, without any command      *)
(* being issued, on a file that is not from a bundle; on a file from a     *)
(* bundle it returns the file of the same base directory whose relative    *)
(* path is the first segment of the file's relative path.                  *)
(***************************************************************************)
C9_BundleOfFile ==
    fn_call = "get_bundle_from_file" =>
        /\ log = <<>>
        /\ IF FirstSegmentIsApp(fn_file)
           THEN /\ fn_result[1] # AssertionError
                /\ fn_result[1].base_dir = fn_file.base_dir
                /\ fn_result[1].relative_filepath = <<fn_file.relative_filepath[1]>>
                /\ fn_result[1].absolute_filepath = BundleDir(fn_file)
                /\ fn_file.relative_filepath = AppExecutable =>
                       fn_result[1].relative_filepath = <<APP_APP>>
           ELSE fn_result[1] = AssertionError

\* get_bundle_from_file has failed on a file whose first segment is no
\* bundle, though a later one is.
C9_Witness ==
    /\ fn_call = "get_bundle_from_file"
    /\ Len(fn_file.relative_filepath) >= 2
    /\ fn_file.relative_filepath[2] = APP_APP
    /\ fn_result = <<AssertionError>>

\* The first file of the list from the bundle named as that of position i.
FirstOfItsName(i) ==
    /\ is_file_from_bundle(files[i])
    /\ \A j \in 1..(i - 1) :
           is_file_from_bundle(files[j]) =>
               files[j].relative_filepath[1] # files[i].relative_filepath[1]

RECURSIVE BundleCommandsFrom(_)
BundleCommandsFrom(i) ==
    IF i > Len(files) THEN <<>>
    ELSE (IF FirstOfItsName(i)
          THEN << <<"remove", BundleDir(files[i])>>,
                  <<"sign", BundleDir(files[i])>> >>
          ELSE <<>>) \o BundleCommandsFrom(i + 1)

CommandsWhenNoneFails ==
    SignOneEach(SelectSeq(files, check_file_is_to_be_signed))
        \o BundleCommandsFrom(1)

IsPrefixOf(s, t) == Len(s) <= Len(t) /\ SubSeq(t, 1, Len(s)) = s

(***************************************************************************)
(* C10.  Failures of the external commands are swallowed: whichever        *)
(* commands fail, the commands issued are those of the run in which none   *)
(* fails (each eligible file in list order, then each bundle at its first  *)
(* file), and codesign_all_files and codesign_bundles return true.         *)
(***************************************************************************)
C10_FailuresSwallowed ==
    /\ IsPrefixOf(Issued, CommandsWhenNoneFails)
    /\ pc = "done" =>
           /\ Issued = CommandsWhenNoneFails
           /\ returned.codesign_all_files = <<TRUE>>
           /\ returned.codesign_bundles = <<TRUE>>
    /\ pc \notin {"idle", "all_files_loop", "all_files_sign"} =>
           returned.codesign_all_files = <<TRUE>>

\* A finished run in which a command failed and later commands were issued
\* in both passes.
C10_Witness ==
    /\ pc = "done"
    /\ failure = "earlier"
    /\ Len(IssuedBy("codesign_all_files")) >= 4
    /\ Len(IssuedBy("codesign_bundles")) >= 2

(***************************************************************************)
(* C11.  The sign command is exactly codesign, --timestamp, --options,     *)
(* runtime, --entitlements=<entitlements file of the configuration>,       *)
(* --sign, <identity of the configuration>, <absolute path>; the           *)
(* remove-signature command is exactly codesign, --remove-signature,       *)
(* <absolute path>.  Commands alternate, remove-signature first.           *)
(***************************************************************************)
C11_ArgumentVectors ==
    \A k \in DOMAIN log :
        IF k % 2 = 1
        THEN log[k].command =
                 <<"codesign", "--remove-signature", Target(log[k])>>
        ELSE log[k].command =
                 <<"codesign", "--timestamp", "--options", "runtime",
                   <<"-", "-", "e", "n", "t", "i", "t", "l", "e", "m", "e", "n",
                     "t", "s", "=">> \o config.MACOS_ENTITLEMENTS_FILE,
                   "--sign", config.MACOS_CODESIGN_IDENTITY, Target(log[k])>>

(***************************************************************************)
(* C12.  sign_all_files enters the bundle pass only after the per-file     *)
(* pass has returned true; the per-file pass never returns anything else,  *)
(* so a run of sign_all_files ends only after codesign_bundles has         *)
(* returned.                                                               *)
(***************************************************************************)
C12_BundlePassAlwaysRuns ==
    /\ returned.codesign_all_files \in {<<>>, <<TRUE>>}
    /\ (\/ pc \in {"bundles_loop", "bundles_found", "bundles_sign"}
        \/ \E k \in DOMAIN log : log[k].caller = "codesign_bundles")
           => returned.codesign_all_files = <<TRUE>>
    /\ pc = "done" => returned.codesign_bundles = <<TRUE>>

\* A finished run whose per-file pass signed nothing and whose bundle pass
\* signed a bundle.
C12_Witness ==
    /\ pc = "done"
    /\ returned.codesign_bundles = <<TRUE>>
    /\ Len(IssuedBy("codesign_all_files")) = 0
    /\ Len(IssuedBy("codesign_bundles")) = 2

(***************************************************************************)
(* C17.  After the bundle pass, for every file of the list that is from a  *)
(* bundle a sign command has been issued on the bundle's directory (the    *)
(* file's base directory joined with the first segment).                   *)
(***************************************************************************)
C17_EveryOwningBundleSigned ==
    returned.codesign_bundles = <<TRUE>> =>
        \A i \in DOMAIN files :
            is_file_from_bundle(files[i]) =>
                \E k \in DOMAIN log :
                    IsSign(log[k]) /\ Target(log[k]) = BundleDir(files[i])

(***************************************************************************)
(* C18.  During sign_all_files get_bundle_from_file is called only on      *)
(* files for which is_file_from_bundle is true: its assertion never fails. *)
(***************************************************************************)
C18_AssertionNeverFails ==
    /\ pc # "raised"
    /\ pc \in {"bundles_found", "bundles_sign"} =>
           /\ is_file_from_bundle(files[file_index])
           /\ bundle # AssertionError
           /\ bundle # <<>>

\* The bundle of the third file has been computed after an empty relative
\* path and a single-segment file outside any bundle were passed over.
C18_Witness ==
    /\ pc = "bundles_found"
    /\ file_index = 3
    /\ files[1].relative_filepath = <<>>
    /\ Len(files[2].relative_filepath) = 1
    /\ ~is_file_from_bundle(files[2])

(***************************************************************************)
(* Runs whose effect on disk is followed.                                  *)
(***************************************************************************)
\* Number of commands issued before the current run began.
RunStart == IF runs = <<>> THEN 0 ELSE runs[Len(runs)].commands

\* The commands issued so far by the current run.
RunIssued == SubSeq(Issued, RunStart + 1, Len(Issued))

\* The target of the sign command that is about to be invoked.
PendingSignTarget ==
    IF pc = "all_files_sign" THEN files[file_index].absolute_filepath
    ELSE bundle.absolute_filepath

(***************************************************************************)
(* C13.  Whatever was signed before the run, whenever the sign command is  *)
(* about to be run for real its target carries no signature.               *)
(***************************************************************************)
C13_SignTargetUnsigned ==
    (~mock /\ pc \in {"all_files_sign", "bundles_sign"}) =>
        PendingSignTarget \notin signatures

(***************************************************************************)
(* C16.  In mock mode a run records the commands of the real run (at every *)
(* moment a prefix of them, at the end all of them) and no step of it      *)
(* changes which artifacts carry a signature.                              *)
(***************************************************************************)
C16_MockRecordsWithoutEffect ==
    /\ [](/\ IsPrefixOf(RunIssued, CommandsWhenNoneFails)
          /\ pc = "done" => RunIssued = CommandsWhenNoneFails)
    /\ [][mock => signatures' = signatures]_vars

\* A finished mock run that recorded a remove-signature and a sign command
\* on a signed file and on an unsigned bundle, both as they were.
C16_Witness ==
    /\ mock
    /\ pc = "done"
    /\ \E k \in DOMAIN log : IsSign(log[k]) /\ Target(log[k]) \in signatures
    /\ \E k \in DOMAIN log :
           /\ IsSign(log[k])
           /\ log[k].caller = "codesign_bundles"
           /\ Target(log[k]) \notin signatures

C15_SummaryCountsEligible ==
    /\ returned.codesign_all_files = <<>> => summary = <<>>
    /\ returned.codesign_all_files = <<TRUE>> =>
           /\ summary # <<>> <=>
                  \E i \in DOMAIN files : ~check_file_is_to_be_signed(files[i])
           /\ summary # <<>> =>
                  /\ summary[1].count =
                         Cardinality({ i \in DOMAIN files :
                                         check_file_is_to_be_signed(files[i]) })
                  /\ summary[1].files =
                         relative_filepaths(
                             SelectSeq(files, check_file_is_to_be_signed))
    /\ (files = Scenario /\ returned.codesign_all_files = <<TRUE>>) =>
           /\ signed_files = SubSeq(Scenario, 1, 3)
           /\ summary # <<>>
           /\ summary[1].count = 3
    /\ (files = Scenario /\ pc = "done") =>
           SignCount(joinpath(OUT, <<FOO_APP>>)) = 1

\* The run on the scenario list has ended: the summary reports 3 and a sign
\* command on /out/Foo.app was issued by the bundle pass.
C15_Witness ==
    /\ files = Scenario
    /\ pc = "done"
    /\ summary # <<>>
    /\ summary[1].count = 3
    /\ BundlePassSignCount(joinpath(OUT, <<FOO_APP>>)) = 1

====
